---- MODULE Spec2Model ----
(***************************************************************************)
(* Model of Microcode.py: the microcode disassembler of the Centurion      *)
(* CPU-6.  The model covers the control-flow explorer (disassemble,        *)
(* disassembleEntries, getNextNotVisited), the label table, the select     *)
(* histogram, the field extraction of disassembleOne and the sequencer     *)
(* resolver getSeqCode / getSwitchTargets.                                 *)
(*                                                                         *)
(* A 64-bit microword is kept as four 16-bit limbs <<w0, w1, w2, w3>>      *)
(* (w0 least significant) because the model checker's integers are 32 bit. *)
(* Python's None is the value None (-1); addresses are never negative.     *)
(* A Python exception that leaves disassemble() is the state pc =          *)
(* "aborted" with the exception's name in error.                           *)
(***************************************************************************)
EXTENDS Integers, Sequences, FiniteSets, TLC

\* registered is the set of addresses that were ever put in the worklist or
\* returned as a resolved successor; call and calls record the calls of
\* disassembleOne
VARIABLES code, opc_map, visited, selects, entries, labels,
          pc, addr, cursor, caller, out, call, calls, error, registered

vars == <<code, opc_map, visited, selects, entries, labels,
          pc, addr, cursor, caller, out, call, calls, error, registered>>

-----------------------------------------------------------------------------
(* Bounds of the model *)

\* the ROM has 2^LogLen words
LogLen == 4

\* non-zero words occupy addresses 0 .. MaxProg-1 (and possibly the last address)
MaxProg == 2

-----------------------------------------------------------------------------
(* Integer helpers for Python's bit operators *)

None == -1

\* 1 << n, for n < 16
Pow2(n) == <<1, 2, 4, 8, 16, 32, 64, 128, 256, 512, 1024, 2048, 4096, 8192,
             16384, 32768>>[n + 1]

RECURSIVE BitAnd(_, _)
BitAnd(a, b) ==
    IF a = 0 \/ b = 0 THEN 0
    ELSE (a % 2) * (b % 2) + 2 * BitAnd(a \div 2, b \div 2)

RECURSIVE BitOr(_, _)
BitOr(a, b) ==
    IF a = 0 THEN b
    ELSE IF b = 0 THEN a
    ELSE (IF a % 2 = 1 \/ b % 2 = 1 THEN 1 ELSE 0) + 2 * BitOr(a \div 2, b \div 2)

\* no inversion: the value itself
BitXor1Identity(a, m) == a

BitXor1(a, m) == BitOr(a, m) - BitAnd(a, m)

\* bit k of a four-limb word
WordBit(word, k) == (word[(k \div 16) + 1] \div Pow2(k % 16)) % 2

ZeroWord == <<0, 0, 0, 0>>

\* (word >> start) & (~(-1 << size))
RECURSIVE getBits(_, _, _)
getBits(word, start, size) ==
    IF size = 0 THEN 0
    ELSE WordBit(word, start) + 2 * getBits(word, start + 1, size - 1)

\* f'{n:0<width>x}': the hexadecimal digits of n, at least width of them
RECURSIVE HexDigits(_)
HexDigits(n) == IF n < 16 THEN <<n>> ELSE Append(HexDigits(n \div 16), n % 16)

RECURSIVE ZeroPad(_, _)
ZeroPad(ds, width) == IF Len(ds) >= width THEN ds ELSE ZeroPad(<<0>> \o ds, width)

Hex(n, width) == ZeroPad(HexDigits(n), width)

-----------------------------------------------------------------------------
(* Label table *)

OpLabel(opcode) == [prefix |-> "Op_", hex |-> Hex(opcode, 2)]

UnknownLabel(a) == [prefix |-> "Unknown_entry_", hex |-> Hex(a, 3)]

addLabel(labs, a, text) ==
    IF a \in DOMAIN labs
    THEN [labs EXCEPT ![a] = Append(@, text)]
    ELSE labs @@ (a :> <<text>>)

labelsAt(labs, a) == IF a \in DOMAIN labs THEN labs[a] ELSE <<>>

-----------------------------------------------------------------------------
(* Sequencer resolver *)

Tok(t, a) == [t |-> t, a |-> a]

JSR_COND == <<"Cycle", "RegIdx & 0x11 == 0", "RegIdx & 1", "REG_MMIO",
              "RegOrPageOut", "DMARequest", "MemFault", "MultiINT">>

\* the branch targets added to the base instead of OR-ed into it
getSwitchTargetsAdd(ents, target, step) ==
    <<target + step * 1, target + step * 2, target + step * 3>> \o ents

\* entries.insert(0, target|(step*i)) for i = 3, 2, 1
getSwitchTargets(ents, target, step) ==
    <<BitOr(target, step * 1), BitOr(target, step * 2), BitOr(target, step * 3)>> \o ents

\* the source selected for address slice i: (s1s0 >> (i * 4)) & 3
SliceBits(s1s0, i) == (s1s0 \div Pow2(4 * i)) % 4

SliceMask(i) == 15 * Pow2(4 * i)

\* OR of the slice masks whose select is in sel
MaskOf(s1s0, sel) ==
    BitOr(IF SliceBits(s1s0, 0) \in sel THEN SliceMask(0) ELSE 0,
    BitOr(IF SliceBits(s1s0, 1) \in sel THEN SliceMask(1) ELSE 0,
          IF SliceBits(s1s0, 2) \in sel THEN SliceMask(2) ELSE 0))

\* the slice sources exchanged: dest for select 0, next for select 3
SliceTargetSwapped(next, dest, s1s0, i) ==
    IF SliceBits(s1s0, i) = 0 THEN BitAnd(dest, SliceMask(i))
    ELSE IF SliceBits(s1s0, i) = 3 THEN BitAnd(next, SliceMask(i))
    ELSE 0

SliceTarget(next, dest, s1s0, i) ==
    IF SliceBits(s1s0, i) = 0 THEN BitAnd(next, SliceMask(i))
    ELSE IF SliceBits(s1s0, i) = 3 THEN BitAnd(dest, SliceMask(i))
    ELSE 0

TargetOf(next, dest, s1s0) ==
    BitOr(SliceTarget(next, dest, s1s0, 0),
    BitOr(SliceTarget(next, dest, s1s0, 1), SliceTarget(next, dest, s1s0, 2)))

\* stride of the switch selected by cond, 0 when cond is no valid encoding
SwitchStep(cond) ==
    IF cond \in {12, 13, 14} THEN 1
    ELSE IF cond \in {3, 7, 11} THEN 4
    ELSE 0

SwitchName(cond) ==
    CASE cond = 12 -> "switch flags(ZM) jump"
      [] cond = 13 -> "switch flags(VH) jump"
      [] cond = 14 -> "switch pagetable??? jump"
      [] cond = 3  -> "switch flags(IL) jump"
      [] cond = 7  -> "switch interrupts??? jump"
      [] cond = 11 -> "switch dma??? jump"

\* the tail of getSeqCode: op = jsr_ + push and the three returns
SeqJoin(jsr_, push, jump) ==
    LET op == jsr_ \o push
    IN  IF op = <<>> THEN jump
        ELSE IF jump = <<>> THEN op
        ELSE op \o jump

\* a push queued on pup alone
PushOfIgnoresFreeze(next, fe, pup) ==
    IF pup = 1 THEN <<Tok("push", <<next>>)>> ELSE <<>>

\* push = f'push {next:x}' when fe == 0 and pup == 1
PushOf(next, fe, pup) ==
    IF fe = 0 /\ pup = 1 THEN <<Tok("push", <<next>>)>> ELSE <<>>

\* 'ret' chosen on the push setting instead of the pop setting
StackJumpOnPush(fe, pup) ==
    IF fe = 0 /\ pup = 1 THEN <<Tok("ret", <<>>)>> ELSE <<Tok("jump STK0", <<>>)>>

\* s1s0 == 0x222 and case_ == 1: 'ret' when the stack pops, else 'jump STK0'
StackJump(fe, pup) ==
    IF fe = 0 /\ pup = 0 THEN <<Tok("ret", <<>>)>> ELSE <<Tok("jump STK0", <<>>)>>

SeqResult(seq, next, ents, raised) ==
    [seqCode |-> seq, next |-> next, entries |-> ents, raised |-> raised]

\* getSeqCode(next, dest, s1s0, fe, pup, case_, cond, jsr) on the worklist ents.
\* With jsr = 0 the parameter cond is overwritten by a condition name, so no
\* later comparison of cond with a number succeeds.  'jump +=' on the unbound
\* local jump raises UnboundLocalError.
getSeqCode(ents, next, dest, s1s0, fe, pup, case_, cond, jsr) ==
    LET ifJsr == <<Tok("if " \o JSR_COND[(dest % 8) + 1] \o " jsr", <<dest>>)>>
        ents1 == IF jsr = 0 THEN Append(ents, dest) ELSE ents
        jsr_  == IF jsr = 0 THEN ifJsr \o <<Tok(" else ", <<>>)>> ELSE <<>>
        push  == PushOf(next, fe, pup)
        condIsNumber == jsr # 0
        ar_mask    == MaskOf(s1s0, {1})
        pop_mask   == MaskOf(s1s0, {2})
        const_mask == MaskOf(s1s0, {0, 3})
        target     == TargetOf(next, dest, s1s0)
        step       == IF condIsNumber THEN SwitchStep(cond) ELSE 0
        popTok == IF pop_mask # 0 THEN <<Tok("|(STK0 & mask)", <<pop_mask>>)>> ELSE <<>>
        arTok  == IF ar_mask # 0 THEN <<Tok("|(SAR & mask)", <<ar_mask>>)>> ELSE <<>>
        popSfx == IF fe = 0 /\ pup = 0 THEN <<Tok("; pop", <<>>)>> ELSE <<>>
        dyn(n) == IF pop_mask # 0 \/ ar_mask # 0 THEN None ELSE n
    IN  IF jsr = 0 /\ s1s0 = 0
        THEN SeqResult(ifJsr, next, ents1, "")
        ELSE IF s1s0 = 0 /\ case_ = 1
        THEN SeqResult(SeqJoin(jsr_, push, <<>>), next, ents1, "")
        ELSE IF s1s0 = 546 /\ case_ = 1
        THEN SeqResult(SeqJoin(jsr_, push, StackJump(fe, pup)), None, ents1, "")
        ELSE IF case_ = 1
        THEN IF push # <<>>
             THEN SeqResult(SeqJoin(jsr_, <<>>,
                                    <<Tok("jsr", <<target>>)>> \o popTok \o arTok \o popSfx),
                            dyn(next), Append(ents1, target), "")
             ELSE SeqResult(SeqJoin(jsr_, push,
                                    <<Tok("jump", <<target>>)>> \o popTok \o arTok \o popSfx),
                            dyn(target), ents1, "")
        ELSE IF BitAnd(const_mask, 15) = 0
        THEN SeqResult(<<>>, None, ents1, "UnboundLocalError")
        ELSE IF step # 0
        THEN SeqResult(SeqJoin(jsr_, push,
                               <<Tok(SwitchName(cond),
                                     <<BitOr(target, 0), BitOr(target, step),
                                       BitOr(target, 2 * step), BitOr(target, 3 * step)>>)>>
                               \o popTok \o arTok \o popSfx),
                       dyn(target), getSwitchTargets(ents1, target, step), "")
        ELSE SeqResult(<<>>, None, ents1, "UnboundLocalError")

-----------------------------------------------------------------------------
(* disassembleOne *)

\* the select with the extra sequencer bit placed one bit too high
MuxSelectShifted(word) ==
    LET seq0_s == BitXor1(getBits(word, 29, 2), 3)
        sh0    == BitXor1(getBits(word, 31, 1), 1)
        mw_c40 == getBits(word, 32, 1)
        mw_a6  == getBits(word, 54, 1)
        s21    == BitXor1(mw_c40, 1)
        s11    == BitAnd(mw_a6, BitXor1(mw_c40, 1))
    IN  BitOr(s21 * 512, BitOr(sh0 * 256, BitOr(s11 * 64, BitOr(sh0 * 16, seq0_s))))

\* S1, S0 lines of the three sequencers
MuxSelect(word) ==
    LET seq0_s == BitXor1(getBits(word, 29, 2), 3)
        sh0    == BitXor1(getBits(word, 31, 1), 1)
        mw_c40 == getBits(word, 32, 1)
        mw_a6  == getBits(word, 54, 1)
        s21    == BitXor1(mw_c40, 1)
        s11    == BitAnd(mw_a6, BitXor1(mw_c40, 1))
    IN  BitOr(s21 * 512, BitOr(sh0 * 256, BitOr(s11 * 32, BitOr(sh0 * 16, seq0_s))))

\* a count that records a select only the first time it is seen
CountSelectOnce(sel, s1s0) ==
    IF s1s0 \in DOMAIN sel
    THEN sel
    ELSE sel @@ (s1s0 :> 1)

\* selects[s1s0] += 1 on a defaultdict(int)
CountSelect(sel, s1s0) ==
    IF s1s0 \in DOMAIN sel
    THEN [sel EXCEPT ![s1s0] = @ + 1]
    ELSE sel @@ (s1s0 :> 1)

\* the sequencer fields of a microword
jsrOf(word)  == getBits(word, 15, 1)
destOf(word) == getBits(word, 16, 11)
feOf(word)   == getBits(word, 27, 1)
pupOf(word)  == getBits(word, 28, 1)
caseOf(word) == getBits(word, 33, 1)
condOf(word) == getBits(word, 20, 4)

\* disassembleOne on a word that is in use: count the select, resolve the
\* sequencer code, print the record, return the successor
DecodeFields(ents, sel, labs, a, word) ==
    LET s1s0 == MuxSelect(word)
        r    == getSeqCode(ents, a + 1, destOf(word), s1s0, feOf(word), pupOf(word),
                           caseOf(word), condOf(word), jsrOf(word))
    IN  [line |-> IF r.raised = ""
                  THEN <<[addr |-> a, labels |-> labelsAt(labs, a), text |-> r.seqCode]>>
                  ELSE <<>>,
         next |-> r.next, entries |-> r.entries,
         selects |-> CountSelect(sel, s1s0), raised |-> r.raised]

\* an unused word that returns the next address instead of None
disassembleOneUnusedContinues(ents, sel, labs, a, word) ==
    IF word = ZeroWord
    THEN [line |-> <<[addr |-> a, labels |-> labelsAt(labs, a), text |-> <<Tok("unused", <<>>)>>]>>,
          next |-> a + 1, entries |-> ents, selects |-> sel, raised |-> ""]
    ELSE DecodeFields(ents, sel, labs, a, word)

\* disassembleOne(addr, word) on the worklist ents, histogram sel and labels labs:
\* the printed record, the returned successor and the updated state
disassembleOne(ents, sel, labs, a, word) ==
    IF word = ZeroWord
    THEN [line |-> <<[addr |-> a, labels |-> labelsAt(labs, a), text |-> <<Tok("unused", <<>>)>>]>>,
          next |-> None, entries |-> ents, selects |-> sel, raised |-> ""]
    ELSE DecodeFields(ents, sel, labs, a, word)

-----------------------------------------------------------------------------
(* The explorer *)

\* len(self.code)
RomLen == Cardinality(DOMAIN code)

\* the addresses a call of disassembleOne leaves in the worklist or returns as
\* the resolved successor
Registers(r) ==
    { r.entries[i] : i \in 1 .. Len(r.entries) }
        \cup (IF r.raised = "" /\ r.next # None THEN {r.next} ELSE {})

\* the scan starting one address after the cursor
getNextNotVisitedAfterCursor(vis, a) ==
    LET cand == {i \in (a + 1) .. (RomLen - 1) : i \notin vis}
    IN  IF cand = {} THEN None ELSE CHOOSE i \in cand : \A j \in cand : i <= j

\* for i in range(addr, len(self.code)): first i not in visited, else None
getNextNotVisited(vis, a) ==
    LET cand == {i \in a .. (RomLen - 1) : i \notin vis}
    IN  IF cand = {} THEN None ELSE CHOOSE i \in cand : \A j \in cand : i <= j

NoCall == [addr |-> None, word |-> ZeroWord, seqCode |-> <<>>, next |-> None,
           raised |-> "", pre |-> <<>>, post |-> <<>>]

\* __init__: entries = [0] followed by one labelled address per opcode
RECURSIVE InitLabels(_, _)
InitLabels(map, n) ==
    IF n = 0 THEN <<>>
    ELSE addLabel(InitLabels(map, n - 1), map[n] + 256, OpLabel(n - 1))

\* a worklist seeded with address 0 alone
InitEntriesOnlyZero(map) == <<0>>

InitEntries(map) == <<0>> \o [i \in 1 .. Len(map) |-> map[i] + 256]

\* the loop condition without the test of the visited set
ThreadContinuesUnchecked(vis, a) == a # None

\* while not (addr is None or addr in self.visited)
ThreadContinues(vis, a) == a # None /\ a \notin vis

\* the loop head taking the last entry of the worklist instead of the first
PopEntryFromBack ==
    /\ pc = "entries"
    /\ entries # <<>>
    /\ entries' = SubSeq(entries, 1, Len(entries) - 1)
    /\ IF entries[Len(entries)] \in visited
       THEN pc' = "entries"
       ELSE pc' = "thread"
    /\ addr' = entries[Len(entries)]
    /\ UNCHANGED <<code, opc_map, visited, selects, labels, cursor, caller,
                   out, call, calls, error, registered>>

\* disassembleEntries, loop head: addr = self.entries.pop(0); visited entries
\* are skipped
PopEntry ==
    /\ pc = "entries"
    /\ entries # <<>>
    /\ entries' = Tail(entries)
    /\ IF Head(entries) \in visited
       THEN pc' = "entries"
       ELSE pc' = "thread"
    /\ addr' = Head(entries)
    /\ UNCHANGED <<code, opc_map, visited, selects, labels, cursor, caller,
                   out, call, calls, error, registered>>

\* disassembleEntries, inner loop body: visited.add(addr);
\* addr = disassembleOne(addr, code[addr])
DecodeStep ==
    /\ pc = "thread"
    /\ ThreadContinues(visited, addr)
    /\ visited' = visited \cup {addr}
    /\ IF addr >= RomLen
       THEN /\ pc' = "aborted"
            /\ error' = "IndexError"
            /\ UNCHANGED <<entries, selects, out, call, calls, addr, registered>>
       ELSE LET r == disassembleOne(entries, selects, labels, addr, code[addr])
            IN  /\ entries' = r.entries
                /\ registered' = registered \cup Registers(r)
                /\ selects' = r.selects
                /\ out' = out \o r.line
                /\ calls' = Append(calls, addr)
                /\ call' = [addr |-> addr, word |-> code[addr],
                            seqCode |-> IF r.line = <<>> THEN <<>> ELSE r.line[1].text,
                            next |-> r.next, raised |-> r.raised, pre |-> entries,
                            post |-> r.entries]
                /\ IF r.raised = ""
                   THEN pc' = "thread" /\ addr' = r.next /\ error' = error
                   ELSE pc' = "aborted" /\ addr' = addr /\ error' = r.raised
    /\ UNCHANGED <<code, opc_map, labels, cursor, caller>>

\* disassembleEntries, inner loop exit: the thread ends
EndThread ==
    /\ pc = "thread"
    /\ ~ThreadContinues(visited, addr)
    /\ pc' = "entries"
    /\ UNCHANGED <<code, opc_map, visited, selects, entries, labels, addr,
                   cursor, caller, out, call, calls, error, registered>>

\* disassembleEntries returns to disassemble: addr = 1 after the first call,
\* addr = addr + 1 after the later ones
Drained ==
    /\ pc = "entries"
    /\ entries = <<>>
    /\ cursor' = IF caller = "first" THEN 1 ELSE cursor + 1
    /\ pc' = "scan"
    /\ UNCHANGED <<code, opc_map, visited, selects, entries, labels, addr,
                   caller, out, call, calls, error, registered>>

\* disassemble, scan loop: next unvisited address gets a label and is queued
Scan ==
    /\ pc = "scan"
    /\ LET a == getNextNotVisited(visited, cursor)
       IN  IF a = None
           THEN /\ pc' = "done"
                /\ UNCHANGED <<labels, entries, cursor, caller, registered>>
           ELSE /\ labels' = addLabel(labels, a, UnknownLabel(a))
                /\ entries' = Append(entries, a)
                /\ registered' = registered \cup {a}
                /\ cursor' = a
                /\ caller' = "rescan"
                /\ pc' = "entries"
    /\ UNCHANGED <<code, opc_map, visited, selects, addr, out, call, calls, error>>

-----------------------------------------------------------------------------
(* Inputs: microwords, ROM images and opcode maps *)

\* the microword with the given sequencer fields, all other fields 0 except d2d3
MkWord(d2d3, jsr, dest, fe, pup, seq0raw, sh0raw, mw_c40, case_, mw_a6) ==
    << d2d3 + jsr * 32768,
       dest + fe * 2048 + pup * 4096 + seq0raw * 8192 + sh0raw * 32768,
       mw_c40 + case_ * 2,
       mw_a6 * 64 >>

\* s1s0 = 0x000, case: continue with the next word
NOP == MkWord(0, 1, 0, 1, 0, 3, 1, 1, 1, 0)
\* s1s0 = 0x222, case, pop: return
RET == MkWord(0, 1, 0, 0, 0, 1, 1, 0, 1, 1)
\* s1s0 = 0x333, case: jump / call dest
JUMP(d) == MkWord(0, 1, d, 1, 0, 0, 0, 0, 1, 1)
CALL(d) == MkWord(0, 1, d, 0, 1, 0, 0, 0, 1, 1)
\* s1s0 = 0x003, no case: switch on cond, low nibble lo
SWITCH(cond, lo) == MkWord(0, 1, cond * 16 + lo, 1, 0, 0, 1, 1, 0, 0)
\* jsr bit clear: conditional jsr alone, before a return, before a switch
CJSR(d) == MkWord(0, 0, d, 1, 0, 3, 1, 1, 1, 0)
CJSRRET(d) == MkWord(0, 0, d, 0, 0, 1, 1, 0, 1, 1)
CJSRSWITCH(cond, lo) == MkWord(0, 0, cond * 16 + lo, 1, 0, 0, 1, 1, 0, 0)
\* s1s0 = 0x111, case: jump through the address register
JUMPAR == MkWord(0, 1, 0, 1, 0, 2, 0, 1, 1, 0)

ProgWords ==
    { ZeroWord, NOP, RET, JUMP(0), JUMP(3), CALL(3), SWITCH(12, 0), SWITCH(3, 0),
      SWITCH(0, 0), CJSR(3), CJSRRET(3), CJSRSWITCH(12, 0), JUMPAR }

TopWords == { ZeroWord, NOP }

Roms ==
    { [i \in 0 .. (Pow2(LogLen) - 1) |->
          IF i < MaxProg THEN p[i]
          ELSE IF i = Pow2(LogLen) - 1 THEN top
          ELSE ZeroWord] :
      p \in [0 .. (MaxProg - 1) -> ProgWords], top \in TopWords }

OpcMaps == { <<>>, <<5>>, <<5, 261>> }

\* state after MicroCode(): disassemble() is about to call disassembleEntries()
Init ==
    /\ code \in Roms
    /\ opc_map \in OpcMaps
    /\ visited = {}
    /\ selects = <<>>
    /\ entries = InitEntries(opc_map)
    /\ labels = InitLabels(opc_map, Len(opc_map))
    /\ pc = "entries"
    /\ addr = None
    /\ cursor = None
    /\ caller = "first"
    /\ out = <<>>
    /\ call = NoCall
    /\ calls = <<>>
    /\ error = ""
    /\ registered = { InitEntries(opc_map)[i] : i \in 1 .. Len(InitEntries(opc_map)) }

Next == PopEntry \/ DecodeStep \/ EndThread \/ Drained \/ Scan

Spec == Init /\ [][Next]_vars

\* disassemble() runs to its end unless an exception leaves it
FairSpec == Spec /\ WF_vars(Next)

-----------------------------------------------------------------------------
(* Runs over a ROM that holds the opcode entry points *)

\* the address labelled Op_00 by the opcode map <<5>>
OpAddr == 261

\* ROM images of 2^(LogLen+5) words: a word at address 0, a word at OpAddr,
\* unused words before OpAddr and at the last address, and words that
\* continue with the next address everywhere else
RomsOp ==
    { [i \in 0 .. (Pow2(LogLen + 5) - 1) |->
          IF i = 0 THEN w0
          ELSE IF i = OpAddr THEN wop
          ELSE IF i \in {OpAddr - 1, Pow2(LogLen + 5) - 1} THEN ZeroWord
          ELSE NOP] :
      w0 \in {ZeroWord, NOP, JUMP(OpAddr)}, wop \in {ZeroWord, NOP, RET} }

InitOp ==
    /\ code \in RomsOp
    /\ opc_map \in {<<>>, <<5>>}
    /\ visited = {}
    /\ selects = <<>>
    /\ entries = InitEntries(opc_map)
    /\ labels = InitLabels(opc_map, Len(opc_map))
    /\ pc = "entries"
    /\ addr = None
    /\ cursor = None
    /\ caller = "first"
    /\ out = <<>>
    /\ call = NoCall
    /\ calls = <<>>
    /\ error = ""
    /\ registered = { InitEntries(opc_map)[i] : i \in 1 .. Len(InitEntries(opc_map)) }

SpecOp == InitOp /\ [][Next]_vars

-----------------------------------------------------------------------------
(* One call of disassembleOne on an arbitrary word and address *)

OneDests == { c * 16 + lo : c \in 0 .. 15, lo \in {0, 5} } \cup { 2047, 960 }

OneAddrs == { 0, 10, 255 }

InitOne ==
    /\ code = <<>>
    /\ opc_map = <<>>
    /\ visited = {}
    /\ selects = <<>>
    /\ entries = <<>>
    /\ labels = <<>>
    /\ pc = "one"
    /\ addr \in OneAddrs
    /\ cursor = None
    /\ caller = "one"
    /\ out = <<>>
    /\ \/ \E jsr \in {0, 1}, dest \in OneDests, fe \in {0, 1}, pup \in {0, 1},
             seq0raw \in 0 .. 3, sh0raw \in {0, 1}, mw_c40 \in {0, 1},
             case_ \in {0, 1}, mw_a6 \in {0, 1} :
             call = [NoCall EXCEPT !.word = MkWord(1, jsr, dest, fe, pup, seq0raw,
                                                   sh0raw, mw_c40, case_, mw_a6)]
       \/ \E w \in ProgWords : call = [NoCall EXCEPT !.word = w]
    /\ calls = <<>>
    /\ error = ""
    /\ registered = {}

ApplyOne ==
    /\ pc = "one"
    /\ LET r == disassembleOne(entries, selects, labels, addr, call.word)
       IN  /\ entries' = r.entries
           /\ selects' = r.selects
           /\ out' = out \o r.line
           /\ calls' = Append(calls, addr)
           /\ call' = [addr |-> addr, word |-> call.word,
                       seqCode |-> IF r.line = <<>> THEN <<>> ELSE r.line[1].text,
                       next |-> r.next, raised |-> r.raised, pre |-> entries,
                            post |-> r.entries]
           /\ pc' = IF r.raised = "" THEN "returned" ELSE "aborted"
           /\ error' = r.raised
           /\ registered' = registered \cup Registers(r)
    /\ UNCHANGED <<code, opc_map, visited, labels, addr, cursor, caller>>

NextOne == ApplyOne

SpecOne == InitOne /\ [][NextOne]_vars

-----------------------------------------------------------------------------
(* Properties of the explorer *)

Range(f) == { f[i] : i \in DOMAIN f }

AllAddresses == 0 .. (RomLen - 1)

\* C1: every run of disassemble() reaches completion without aborting, and
\* at completion the worklist is empty and the visited set is exactly the
\* set of ROM addresses.
C1_RunCompletes ==
    /\ pc # "aborted"
    /\ pc = "done" => entries = <<>> /\ visited = AllAddresses

\* C2: no address is passed to disassembleOne twice, and every address
\* passed to it was put in the visited set first.
C2_DecodedAtMostOnce ==
    /\ \A i, j \in 1 .. Len(calls) : calls[i] = calls[j] => i = j
    /\ \A i \in 1 .. Len(calls) : calls[i] \in visited

\* C2 witness: a thread whose resolved successor is its own or an earlier,
\* already decoded address, with a worklist that holds a duplicate.
C2_Witness ==
    /\ pc = "thread"
    /\ addr # None
    /\ addr \in Range(calls)
    /\ addr <= call.addr
    /\ \E i, j \in 1 .. Len(entries) : i < j /\ entries[i] = entries[j]

-----------------------------------------------------------------------------
(* Properties of one decoded word.  call is the latest call of              *)
(* disassembleOne: its arguments, its result, and the worklist before (pre) *)
(* and after (post) it.                                                     *)

Called == call.addr # None

ValidConds == {12, 13, 14, 3, 7, 11}

\* the word is in use and is not returned early by the conditional jsr
ReachesGeneralCase(w) == w # ZeroWord /\ ~(jsrOf(w) = 0 /\ MuxSelect(w) = 0)

LowSliceConstant(w) == SliceBits(MuxSelect(w), 0) \in {0, 3}

IsAnomaly(w) ==
    /\ ReachesGeneralCase(w)
    /\ caseOf(w) = 0
    /\ (condOf(w) \notin ValidConds \/ ~LowSliceConstant(w))

HasWarning(seq) ==
    \E k \in 1 .. Len(seq) : seq[k].t \in {" !WARN unexpected switch", "!WARN bad switch"}

\* the worklist after the conditional jsr of word w registered its dest
AfterJsr(w, ents) == IF jsrOf(w) = 0 THEN Append(ents, destOf(w)) ELSE ents

\* C3: a word that reaches the conditional dispatch with an invalid cond or
\* a low slice that is not constant returns a transfer with a warning,
\* registers no switch target, and the run goes on.
C3_AnomalyIsWarning ==
    (Called /\ IsAnomaly(call.word)) =>
        /\ call.raised = ""
        /\ pc # "aborted"
        /\ HasWarning(call.seqCode)
        /\ call.post = AfterJsr(call.word, call.pre)

IsFallThrough(w) == w # ZeroWord /\ MuxSelect(w) = 0 /\ caseOf(w) = 1

PushQueued(w) == feOf(w) = 0 /\ pupOf(w) = 1

\* C4 as stated: s1s0 = 0x000 with caseFlag set gives the empty transfer and
\* the successor addr+1, for every jsrFlag, stackFE, stackPUP and dest.
C4_Original ==
    (Called /\ IsFallThrough(call.word)) =>
        /\ call.seqCode = <<>>
        /\ call.next = call.addr + 1

\* C4 amended: s1s0 = 0x000 with caseFlag set always gives the successor
\* addr+1; the transfer is empty exactly when jsrFlag is set and no push is
\* queued; with jsrFlag unset it is the conditional jsr alone and dest is
\* appended to the worklist; with jsrFlag set and a push queued it is the
\* push of addr+1.
C4_FallThrough ==
    (Called /\ IsFallThrough(call.word)) =>
        LET w == call.word
        IN  /\ call.raised = ""
            /\ call.next = call.addr + 1
            /\ call.seqCode = <<>> <=> (jsrOf(w) = 1 /\ ~PushQueued(w))
            /\ jsrOf(w) = 0 =>
                  /\ Len(call.seqCode) = 1
                  /\ call.seqCode[1].a = <<destOf(w)>>
                  /\ call.post = Append(call.pre, destOf(w))
            /\ jsrOf(w) = 1 => call.post = call.pre
            /\ (jsrOf(w) = 1 /\ PushQueued(w)) =>
                  call.seqCode = <<Tok("push", <<call.addr + 1>>)>>

\* C4 witness: a fall-through word with jsrFlag set and a push queued
C4_Witness ==
    /\ Called
    /\ IsFallThrough(call.word)
    /\ jsrOf(call.word) = 1
    /\ PushQueued(call.word)
    /\ call.seqCode # <<>>

IsReturnWord(w) ==
    /\ w # ZeroWord
    /\ MuxSelect(w) = 546
    /\ caseOf(w) = 1
    /\ feOf(w) = 0
    /\ pupOf(w) = 0

\* C5 as stated: s1s0 = 0x222 with caseFlag set and stackFE = stackPUP = 0
\* gives the return transfer and an unresolved successor, and nothing is
\* derived from the word, for every jsrFlag and dest.
C5_Original ==
    (Called /\ IsReturnWord(call.word)) =>
        /\ call.seqCode = <<Tok("ret", <<>>)>>
        /\ call.next = None
        /\ call.post = call.pre

\* C5 amended: for such a word the successor is unresolved and the transfer
\* ends in the return; with jsrFlag set the transfer is the return alone and
\* the worklist is unchanged; with jsrFlag unset the return is the else
\* branch of the conditional jsr and dest is appended to the worklist.
C5_Return ==
    (Called /\ IsReturnWord(call.word)) =>
        LET w == call.word
            seq == call.seqCode
        IN  /\ call.raised = ""
            /\ call.next = None
            /\ seq # <<>>
            /\ seq[Len(seq)] = Tok("ret", <<>>)
            /\ jsrOf(w) = 1 => (Len(seq) = 1 /\ call.post = call.pre)
            /\ jsrOf(w) = 0 =>
                  /\ Len(seq) = 3
                  /\ seq[1].a = <<destOf(w)>>
                  /\ call.post = Append(call.pre, destOf(w))

\* C5 witness: a return word with jsrFlag unset has been decoded
C5_Witness ==
    /\ Called
    /\ IsReturnWord(call.word)
    /\ jsrOf(call.word) = 0
    /\ call.post # call.pre

\* the word was resolved as a switch: its four branch targets were computed
IsSwitchResolved(c) ==
    /\ c.addr # None
    /\ ReachesGeneralCase(c.word)
    /\ caseOf(c.word) = 0
    /\ c.raised = ""

\* the four branch targets printed in the transfer
SwitchArgs(seq) == (CHOOSE k \in Range(seq) : Len(k.a) = 4).a

Stride(w) == IF condOf(w) \in {12, 13, 14} THEN 1 ELSE 4

\* the two address bits a switch of stride st varies, and the other bits
PairBits(t, st) == (t \div st) % 4
OtherBits(t, st) == t - PairBits(t, st) * st

\* C6 as stated: the four branch targets of a switch are a common base plus
\* 0, 1, 2, 3 times the stride (1 or 4), hence pairwise distinct.
C6_Original ==
    IsSwitchResolved(call) =>
        LET T == SwitchArgs(call.seqCode)
            st == Stride(call.word)
        IN  \A k \in 0 .. 3 : T[k + 1] = T[1] + k * st

\* C6 amended: the four branch targets getSeqCode computes (it computes them
\* only for a valid cond, a constant low slice and jsrFlag set) are target
\* OR 0, 1, 2, 3 times the stride: they agree in every address bit outside
\* the pair the switch varies, the first is target, the last has both bits of
\* the pair set, the three registered targets are the 2nd to 4th, and they
\* are base + 0, 1, 2, 3 strides (pairwise distinct) exactly when target has
\* both bits of the pair clear.
C6_SwitchTargets ==
    IsSwitchResolved(call) =>
        LET w == call.word
            T == SwitchArgs(call.seqCode)
            st == Stride(w)
        IN  /\ condOf(w) \in ValidConds
            /\ LowSliceConstant(w)
            /\ jsrOf(w) = 1
            /\ T[1] = TargetOf(call.addr + 1, destOf(w), MuxSelect(w))
            /\ \A k \in 1 .. 4 : OtherBits(T[k], st) = OtherBits(T[1], st)
            /\ \A k \in 1 .. 4 : PairBits(T[k], st) = BitOr(PairBits(T[1], st), k - 1)
            /\ PairBits(T[4], st) = 3
            /\ call.post = <<T[2], T[3], T[4]>> \o call.pre
            /\ (\A k \in 0 .. 3 : T[k + 1] = T[1] + k * st) <=> PairBits(T[1], st) = 0
            /\ (\A j, k \in 1 .. 4 : j # k => T[j] # T[k]) <=> PairBits(T[1], st) = 0

\* C6 witness: a switch whose target has a bit of the varied pair set, so
\* that branch targets coincide
C6_Witness ==
    /\ IsSwitchResolved(call)
    /\ PairBits(SwitchArgs(call.seqCode)[1], Stride(call.word)) # 0
    /\ SwitchArgs(call.seqCode)[1] = SwitchArgs(call.seqCode)[2]

-----------------------------------------------------------------------------
(* Properties of the explorer, continued *)

UnusedRecord(a) ==
    [addr |-> a, labels |-> labelsAt(labels, a), text |-> <<Tok("unused", <<>>)>>]

\* the next step decodes an address whose word is 0
AtUnusedWord ==
    /\ pc = "thread"
    /\ addr # None
    /\ addr \notin visited
    /\ addr < RomLen
    /\ code[addr] = ZeroWord

\* C7: decoding an address whose word is 0 prints the "unused" record and
\* returns no successor, so the thread ends there; the worklist and the label
\* mapping are left unchanged by that step.
C7_UnusedEndsThread ==
    [][AtUnusedWord =>
         /\ out' = Append(out, UnusedRecord(addr))
         /\ addr' = None
         /\ entries' = entries
         /\ labels' = labels
         /\ selects' = selects
         /\ pc' = "thread"]_vars

\* C7 witness: a word 0 has just been decoded while the worklist and the
\* label mapping were not empty
C7_Witness ==
    /\ Called
    /\ call.word = ZeroWord
    /\ pc = "thread"
    /\ addr = None
    /\ call.post # <<>>
    /\ call.post = call.pre
    /\ out[Len(out)].text = <<Tok("unused", <<>>)>>

AfterInit == pc = "entries" /\ caller = "first" /\ visited = {}

\* C8: after initialisation the label mapping has Op_<i> at map[i] | 0x100 for
\* every opcode i, and the worklist is 0 followed by these addresses in
\* opcode order.
C8_InitialSeeds ==
    AfterInit =>
        /\ \A i \in 1 .. Len(opc_map) :
              LET a == BitOr(opc_map[i], 256)
              IN  /\ a \in DOMAIN labels
                  /\ OpLabel(i - 1) \in Range(labels[a])
                  /\ a \in Range(entries)
        /\ entries = <<0>> \o [i \in 1 .. Len(opc_map) |-> BitOr(opc_map[i], 256)]

\* every address written in the input lies inside the ROM: there is no opcode
\* seed, and the dest field of every word is below len(ROM)
InputsFit ==
    /\ opc_map = <<>>
    /\ \A a \in DOMAIN code : destOf(code[a]) < RomLen

\* C9: every address in the worklist, every address a thread is about to
\* decode and every resolved successor is below len(ROM).  Stated for the
\* runs whose input addresses all lie inside the ROM, so that only the
\* addresses the explorer computes itself are left.
C9_AddressesInRange ==
    InputsFit =>
        /\ \A i \in 1 .. Len(entries) : entries[i] < RomLen
        /\ (pc = "thread" /\ addr # None) => addr < RomLen
        /\ call.next # None => call.next < RomLen

\* C10: with jsrFlag unset and s1s0 # 0x000 the word is resolved as the same
\* word with jsrFlag set, after dest has been registered: same outcome, same
\* successor, same registered targets.
C10_ElseBranchAsWithJsrSet ==
    (Called /\ call.word # ZeroWord /\ jsrOf(call.word) = 0 /\ MuxSelect(call.word) # 0) =>
        LET w == call.word
            r == getSeqCode(Append(call.pre, destOf(w)), call.addr + 1, destOf(w),
                            MuxSelect(w), feOf(w), pupOf(w), caseOf(w), condOf(w), 1)
        IN  /\ call.raised = r.raised
            /\ call.next = r.next
            /\ call.post = r.entries

-----------------------------------------------------------------------------
(* Properties of one decoded word, continued *)

\* C11: right after a switch word is decoded each of its four branch targets
\* is in the worklist or is the successor the thread continues with, also
\* when the middle or high slice comes from a dynamic source.
C11_AllTargetsRegistered ==
    IsSwitchResolved(call) =>
        \A k \in 1 .. 4 :
            \/ SwitchArgs(call.seqCode)[k] \in Range(call.post)
            \/ SwitchArgs(call.seqCode)[k] = call.next

-----------------------------------------------------------------------------
(* Order of exploration *)

\* the latest decoded word returned a resolved successor that is not yet
\* visited, and the thread is about to continue with it
AtResolvedSuccessor ==
    /\ pc = "thread"
    /\ Called
    /\ call.raised = ""
    /\ call.next # None
    /\ addr = call.next
    /\ addr \notin visited

\* C12: when decoding a yields a resolved successor s that is not yet visited,
\* s is the very next address decoded: the next step is the decoding of s, no
\* worklist entry is popped before it.
C12_SuccessorDecodedNext ==
    [][AtResolvedSuccessor => calls' = Append(calls, addr)]_vars


Unvisited == AllAddresses \ visited

LowestUnvisited == CHOOSE a \in Unvisited : \A b \in Unvisited : a <= b

\* the scan has just queued the address under the cursor
ScanQueued ==
    /\ caller = "rescan"
    /\ cursor \notin visited
    /\ \/ pc = "entries" /\ entries = <<cursor>>
       \/ pc = "thread" /\ entries = <<>> /\ addr = cursor

\* C13: each time the worklist is drained and an address is still unvisited,
\* the scan chooses the lowest unvisited address of the whole ROM, labels it
\* Unknown_entry_<address> and queues it, and it is the next address decoded;
\* the scan stops only when no address is unvisited.
C13_ScanPicksLowestUnvisited ==
    [][/\ (pc = "scan" /\ Unvisited # {}) =>
              /\ pc' = "entries"
              /\ cursor' = LowestUnvisited
              /\ entries' = <<LowestUnvisited>>
              /\ labels' = addLabel(labels, LowestUnvisited, UnknownLabel(LowestUnvisited))
              /\ visited' = visited
       /\ (pc = "scan" /\ Unvisited = {}) => pc' = "done"
       /\ pc' = "done" => pc = "scan" /\ Unvisited = {}
       /\ (ScanQueued /\ pc = "entries") =>
              /\ ScanQueued'
              /\ pc' = "thread"
              /\ calls' = calls
       /\ (ScanQueued /\ pc = "thread") => calls' = Append(calls, cursor)
      ]_vars

\* a scan found address 3 with lower addresses decoded before and after the
\* cursor passed them, and address 3 has been decoded under its label
C13_Witness ==
    /\ Called
    /\ caller = "rescan"
    /\ call.addr = cursor
    /\ cursor = 3
    /\ labelsAt(labels, cursor) = <<UnknownLabel(cursor)>>
    /\ calls[Len(calls)] = cursor
    /\ Unvisited # {}


\* a word that getSeqCode resolves as a switch
IsValidSwitchWord(w) ==
    /\ ReachesGeneralCase(w)
    /\ caseOf(w) = 0
    /\ condOf(w) \in ValidConds
    /\ LowSliceConstant(w)
    /\ jsrOf(w) = 1

\* what decoding address a returns
DecodedAt(a) == disassembleOne(<<>>, selects, labels, a, code[a])

TargetsAt(a) == SwitchArgs(DecodedAt(a).line[1].text)

\* the k-th decoded address was popped from the worklist, not continued into
ThreadStart(k) == k = 1 \/ DecodedAt(calls[k - 1]).next # calls[k]

\* C14 as stated: the branch targets of a valid switch that are first visited
\* after the switch are first visited in ascending address order, and between
\* the first and the last started branch target no other worklist entry is
\* started.
C14_Original ==
    \A k \in 1 .. Len(calls) :
        IsValidSwitchWord(code[calls[k]]) =>
            LET T == Range(TargetsAt(calls[k]))
                after == {m \in (k + 1) .. Len(calls) : calls[m] \in T}
            IN  /\ \A m, n \in after : m < n => calls[m] < calls[n]
                /\ \A lo, hi \in after : \A m \in (lo + 1) .. (hi - 1) :
                       (ThreadStart(lo) /\ ThreadStart(m)) => calls[m] \in T

\* C14: decoding a valid switch puts target|s, target|2s, target|3s, in this
\* order, at the front of the worklist and continues the thread with target
\* or ends it; every step changes the worklist only by taking its first entry
\* or by adding entries in front of or behind the entries it holds.  So the
\* three branch targets are popped in the order target|s, target|2s,
\* target|3s and before every entry queued earlier.
C14_BranchTargetsQueuedInOrder ==
    [][/\ (/\ pc = "thread"
           /\ ThreadContinues(visited, addr)
           /\ addr < RomLen
           /\ IsValidSwitchWord(code[addr])) =>
              LET T == TargetsAt(addr)
                  st == Stride(code[addr])
              IN  /\ entries' = <<BitOr(T[1], st), BitOr(T[1], 2 * st), BitOr(T[1], 3 * st)>> \o entries
                  /\ pc' = "thread"
                  /\ addr' \in {T[1], None}
                  /\ PairBits(T[1], st) = 0 => entries'[1] < entries'[2] /\ entries'[2] < entries'[3]
       /\ \/ entries' = entries
          \/ entries # <<>> /\ entries' = Tail(entries)
          \/ \E i \in 1 .. (Len(entries') + 1) :
                 /\ i + Len(entries) - 1 <= Len(entries')
                 /\ SubSeq(entries', i, i + Len(entries) - 1) = entries
      ]_vars

\* C14 witness: the branch targets 1, 2, 3 of a switch were queued in this
\* order, the thread started at 1 went on to 3, and 2 was decoded after 3
C14_Witness ==
    \E k \in 1 .. Len(calls) :
        /\ IsValidSwitchWord(code[calls[k]])
        /\ Stride(code[calls[k]]) = 1
        /\ TargetsAt(calls[k]) = <<0, 1, 2, 3>>
        /\ \E m, n \in (k + 1) .. Len(calls) :
               /\ m < n
               /\ calls[m] = 3
               /\ calls[n] = 2
               /\ ThreadStart(n)
               /\ ~ThreadStart(m)


-----------------------------------------------------------------------------
(* Properties of one decoded word: the general case of getSeqCode *)

\* the word reaches the else branch that builds target slice by slice
InGeneralCase(w) ==
    /\ ReachesGeneralCase(w)
    /\ ~(caseOf(w) = 1 /\ MuxSelect(w) \in {0, 546})

\* a slice is taken from the address register (1) or the popped stack (2)
HasDynamicSlice(w) == \E i \in 0 .. 2 : SliceBits(MuxSelect(w), i) \in {1, 2}

\* C15: in the general case a word with a slice from the address register or
\* the popped stack makes getSeqCode return the unresolved successor, for
\* every caseFlag, cond, push/pop setting and branch family.
C15_DynamicSliceUnresolved ==
    (Called /\ InGeneralCase(call.word) /\ HasDynamicSlice(call.word)) =>
        /\ call.raised = ""
        /\ call.next = None


\* the word is in the general case with caseFlag set and every slice taken
\* from a constant source
IsConstantJump(w) ==
    /\ InGeneralCase(w)
    /\ caseOf(w) = 1
    /\ \A i \in 0 .. 2 : SliceBits(MuxSelect(w), i) \in {0, 3}

\* the 4-bit slice i of address x
Slice(x, i) == (x \div Pow2(4 * i)) % 16

TokenNames(seq) == { seq[k].t : k \in 1 .. Len(seq) }

\* C16: in the general case with caseFlag set and only constant slices, the
\* slice i of target is slice i of addr+1 for select 0 and of dest for select
\* 3; without a queued push the transfer is "jump target" and the successor is
\* target; with a queued push the transfer is "jsr target" with no separate
\* push, target is appended to the worklist and the successor is addr+1.
C16_ConstantJumpOrCall ==
    (Called /\ IsConstantJump(call.word)) =>
        LET w == call.word
            T == Slice(IF SliceBits(MuxSelect(w), 0) = 0 THEN call.addr + 1 ELSE destOf(w), 0)
                 + 16 * Slice(IF SliceBits(MuxSelect(w), 1) = 0 THEN call.addr + 1 ELSE destOf(w), 1)
                 + 256 * Slice(IF SliceBits(MuxSelect(w), 2) = 0 THEN call.addr + 1 ELSE destOf(w), 2)
        IN  /\ call.raised = ""
            /\ "push" \notin TokenNames(call.seqCode)
            /\ IF PushQueued(w)
               THEN /\ Tok("jsr", <<T>>) \in Range(call.seqCode)
                    /\ "jump" \notin TokenNames(call.seqCode)
                    /\ call.post = Append(AfterJsr(w, call.pre), T)
                    /\ call.next = call.addr + 1
               ELSE /\ Tok("jump", <<T>>) \in Range(call.seqCode)
                    /\ "jsr" \notin TokenNames(call.seqCode)
                    /\ call.post = AfterJsr(w, call.pre)
                    /\ call.next = T

\* C16 witness: a call at address 0xff with dest 0x065 whose target 0x105 has
\* its low slice from dest and the other slices from addr+1
C16_Witness ==
    /\ Called
    /\ IsConstantJump(call.word)
    /\ PushQueued(call.word)
    /\ MuxSelect(call.word) = 3
    /\ call.addr = 255
    /\ destOf(call.word) = 101
    /\ Tok("jsr", <<261>>) \in Range(call.seqCode)
    /\ call.post = <<261>>
    /\ call.next = 256


-----------------------------------------------------------------------------
(* The select histogram *)

RECURSIVE SumOver(_, _)
SumOver(f, keys) ==
    IF keys = {} THEN 0
    ELSE LET k == CHOOSE x \in keys : TRUE
         IN  f[k] + SumOver(f, keys \ {k})

\* the sum of the histogram counts
SelectTotal == SumOver(selects, DOMAIN selects)

\* the decoded addresses whose word is in use
UsedCalls == {k \in 1 .. Len(calls) : code[calls[k]] # ZeroWord}

\* C17 as stated: every decoded address contributes exactly one increment, and
\* at the end of a completed run the counts sum to the number of ROM addresses.
C17_Original ==
    /\ SelectTotal = Len(calls)
    /\ pc = "done" => SelectTotal = RomLen

\* C17: every decoded address whose word is not 0 contributes exactly one
\* increment, to the count of its own select; an address whose word is 0
\* contributes none.  At the end of a completed run the counts sum to the
\* number of ROM addresses whose word is not 0.
C17_HistogramCountsUsedWords ==
    /\ SelectTotal = Cardinality(UsedCalls)
    /\ \A key \in DOMAIN selects :
           selects[key] = Cardinality({k \in UsedCalls : MuxSelect(code[calls[k]]) = key})
    /\ \A k \in UsedCalls : MuxSelect(code[calls[k]]) \in DOMAIN selects
    /\ pc = "done" =>
           SelectTotal = Cardinality({a \in AllAddresses : code[a] # ZeroWord})

\* C17 witness: a completed run over a ROM with two words in use that share
\* their select, and unused words
C17_Witness ==
    /\ pc = "done"
    /\ SelectTotal = 2
    /\ \E key \in DOMAIN selects : selects[key] = 2
    /\ Len(calls) = RomLen


\* C18: each of the three nibbles of s1s0 is one of 0, 1, 2, 3 (bits 2-3, 6-7
\* and 10-11 are 0 and no bit above bit 9 is set), for the select of every
\* word and so for every key of the histogram.
C18_SelectNibblesBelowFour ==
    /\ Called =>
           /\ MuxSelect(call.word) \in 0 .. 4095
           /\ \A i \in 0 .. 2 : Slice(MuxSelect(call.word), i) \in 0 .. 3
    /\ \A key \in DOMAIN selects :
           /\ key \in 0 .. 4095
           /\ \A i \in 0 .. 2 : Slice(key, i) \in 0 .. 3

\* C18 witness: a decoded word whose select 0x333 has the largest value in
\* every nibble and is a key of the histogram
C18_Witness ==
    /\ Called
    /\ call.raised = ""
    /\ MuxSelect(call.word) = 819
    /\ 819 \in DOMAIN selects
    /\ selects[819] = 1


-----------------------------------------------------------------------------
(* Labels *)

UnknownAt(labs, a) == {k \in 1 .. Len(labelsAt(labs, a)) : labelsAt(labs, a)[k].prefix = "Unknown_entry_"}

OpAt(labs, a) == {k \in 1 .. Len(labelsAt(labs, a)) : labelsAt(labs, a)[k].prefix = "Op_"}

\* C19: a label is bound after initialisation only by the scan, as
\* Unknown_entry_<a> to an address a that at that moment is unvisited, was
\* never in the worklist and never taken as a thread successor; so every
\* address has at most one Unknown_entry label and no address has both an Op
\* and an Unknown_entry label.
C19_UnknownEntryOnlyForUnknown ==
    [][/\ labels' # labels =>
              /\ pc = "scan"
              /\ cursor' \in AllAddresses
              /\ cursor' \notin visited
              /\ cursor' \notin registered
              /\ labelsAt(labels, cursor') = <<>>
              /\ labels' = addLabel(labels, cursor', UnknownLabel(cursor'))
       /\ \A a \in DOMAIN labels' :
              /\ Cardinality(UnknownAt(labels', a)) <= 1
              /\ OpAt(labels', a) # {} => UnknownAt(labels', a) = {}
      ]_vars

\* C19 witness: a run with the opcode map <<5>>: the address of Op_00 was
\* decoded from the worklist and kept its label alone, then the scan passed
\* it and bound Unknown_entry to the address behind it, which was decoded
C19_Witness ==
    /\ opc_map = <<5>>
    /\ labelsAt(labels, OpAddr) = <<OpLabel(0)>>
    /\ OpAddr \in Range(calls)
    /\ labelsAt(labels, OpAddr + 1) = <<UnknownLabel(OpAddr + 1)>>
    /\ OpAddr + 1 \in Range(calls)
    /\ cursor = OpAddr + 1


\* the composite values whose high and middle nibble have the same bit 0 and
\* whose middle nibble has bit 1 set only if the high nibble has it
CoupledSelects ==
    UNION { { hi * 256 + mid * 16 + lo :
                  mid \in {m \in 0 .. 3 : m % 2 = hi % 2 /\ m \div 2 <= hi \div 2},
                  lo \in 0 .. 3 } :
            hi \in 0 .. 3 }

\* C20: in s1s0 the high and the middle nibble have the same bit 0, the
\* inverted bit 31 of the word; bit 1 of the high nibble is the inverted bit
\* 32, bit 1 of the middle nibble is bit 54 AND the inverted bit 32.  So a
\* select, and a key of the histogram, is one of at most 24 values, and 0x222
\* is one of them.
C20_NibblesCoupled ==
    /\ Called =>
           LET w == call.word
               hi == Slice(MuxSelect(w), 2)
               mid == Slice(MuxSelect(w), 1)
           IN  /\ hi % 2 = 1 - getBits(w, 31, 1)
               /\ mid % 2 = 1 - getBits(w, 31, 1)
               /\ hi \div 2 = 1 - getBits(w, 32, 1)
               /\ mid \div 2 = getBits(w, 54, 1) * (1 - getBits(w, 32, 1))
               /\ MuxSelect(w) \in CoupledSelects
    /\ DOMAIN selects \subseteq CoupledSelects
    /\ Cardinality(CoupledSelects) <= 24
    /\ 546 \in CoupledSelects

\* C20 witness: a decoded word with the select 0x222 as a key of the
\* histogram
C20_Witness ==
    /\ Called
    /\ call.raised = ""
    /\ MuxSelect(call.word) = 546
    /\ DOMAIN selects = {546}

====
